---- MODULE Spec2Model ----
(***************************************************************************)
(* Model of jcjohnson/pendulum: the Pendulum object (construction, energy  *)
(* queries, the time-stepping integrators) in its two source variants,     *)
(* src/js/pendulum.js and src/unnamed/part_000.                            *)
(*                                                                         *)
(* Number model.  JavaScript doubles are modelled by integers.  Angles are *)
(* counted in quarter turns, so that Math.sin and Math.cos are exact on    *)
(* the grid (Sin, Cos below); a division x / y is the integer division     *)
(* x \div y, and a product with a fraction, (dt / 2) * x, is (dt * x) \div *)
(* 2.  GRAVITY is 9.81 rounded to the grid.  Masses are multiples of 6 so  *)
(* that the factors 0.5 and 1/3 of the compound coefficients are exact.    *)
(*                                                                         *)
(* Object model.  _.extend(this, _.pick(options, ...)) copies references:  *)
(* a Pendulum's lengths, masses, thetas and omegas ARE the arrays of the   *)
(* options object it was built from.  The arrays therefore live in        *)
(* `options`, and a pendulum records which options object it aliases.      *)
(***************************************************************************)
EXTENDS Integers, Sequences, FiniteSets, TLC

\* ---------------------------------------------------------------- bounds
MaxDim == 3      \* longest per-link array of a construction input
MaxSteps == 2    \* takeStep calls in one behaviour
MaxNum == 1000   \* largest |omega| / |alpha| a step may compute

\* ------------------------------------------------------- program constants
GRAVITY == 10

FORWARD_EULER == "FORWARD_EULER"
SEMI_IMPLICIT_EULER == "SEMI_IMPLICIT_EULER"
RUNGE_KUTTA == "RUNGE_KUTTA"
INTEGRATION_METHODS == {FORWARD_EULER, SEMI_IMPLICIT_EULER, RUNGE_KUTTA}

Undefined == "undefined"
Null == "null"

ValidationMessage == "All parameters must be arrays of the same length."
NotImplemented == "Not implemented"
TypeError == "TypeError"
NoThrow == "none"

Variants == {"pendulum_js", "part_000"}
Pids == {1, 2}        \* Pendulum instances the host may hold
OptIds == {1, 2}      \* options objects the caller holds

VARIABLES
  variant,      \* which source file is loaded
  options,      \* the caller's options objects: the arrays live here
  pendulums,    \* the constructed Pendulum objects
  last,         \* the last call: its arguments, outcome and the state before it
  trace         \* per pendulum, the steps taken and the state after each

vars == <<variant, options, pendulums, last, trace>>

\* ------------------------------------------------------------ number model
Sin(x) == CASE x % 4 = 0 -> 0 [] x % 4 = 1 -> 1 [] x % 4 = 2 -> 0 [] OTHER -> -1
Cos(x) == CASE x % 4 = 0 -> 1 [] x % 4 = 1 -> 0 [] x % 4 = 2 -> -1 [] OTHER -> 0

Abs(x) == IF x < 0 THEN -x ELSE x
InRange(s) == \A i \in DOMAIN s : Abs(s[i]) <= MaxNum

\* ------------------------------------------------------------- the objects
\* A pendulum slot before `new Pendulum(...)` has returned an object.
NoPendulum ==
  [constructed |-> FALSE, opt |-> 1, integration_method |-> Undefined,
   compound |-> FALSE, dimension |-> 0, time |-> 0]

\* The fields of Pendulum p, its arrays read through the references it holds.
Self(p) ==
  [lengths |-> options[pendulums[p].opt].lengths,
   masses |-> options[pendulums[p].opt].masses,
   thetas |-> options[pendulums[p].opt].thetas,
   omegas |-> options[pendulums[p].opt].omegas,
   integration_method |-> pendulums[p].integration_method,
   compound |-> pendulums[p].compound,
   dimension |-> pendulums[p].dimension,
   time |-> pendulums[p].time]

\* What a caller observes of p: (thetas, omegas, time).
View(p) ==
  IF pendulums[p].constructed
  THEN [constructed |-> TRUE, thetas |-> Self(p).thetas,
        omegas |-> Self(p).omegas, time |-> pendulums[p].time]
  ELSE [constructed |-> FALSE, thetas |-> <<>>, omegas |-> <<>>, time |-> 0]

Snapshot == [p \in Pids |-> View(p)]

\* --------------------------------------------------------------- constructor
\* A faulty variant of the comparison below: thetas is never compared with
\* omegas.
LengthsDifferTwoChecks(o) ==
  \/ Len(o.lengths) # Len(o.masses)
  \/ Len(o.masses) # Len(o.thetas)

\* Lines 23-25: the three pairwise comparisons of the array lengths.
LengthsDiffer(o) ==
  \/ Len(o.lengths) # Len(o.masses)
  \/ Len(o.masses) # Len(o.thetas)
  \/ Len(o.thetas) # Len(o.omegas)

\* Lines 19-21: only `undefined` is replaced by the default; null is kept.
MethodOf(o) ==
  IF o.integration_method = Undefined
  THEN SEMI_IMPLICIT_EULER
  ELSE o.integration_method

\* allowed_options: part_000 does not pick 'compound', so this.compound is
\* undefined there, which every `if (this.compound)` reads as false.
CompoundOf(o) == IF variant = "pendulum_js" THEN o.compound ELSE FALSE

\* ------------------------------------------------------------------ geometry
RECURSIVE PositionsLoop(_, _, _, _, _)
PositionsLoop(self, i, sx, sy, pos) ==
  IF i > self.dimension THEN pos
  ELSE LET nsx == sx + self.lengths[i] * Sin(self.thetas[i])
           nsy == sy - self.lengths[i] * Cos(self.thetas[i])
       IN PositionsLoop(self, i + 1, nsx, nsy, Append(pos, <<nsx, nsy>>))

getCartesianPositions(self) == PositionsLoop(self, 1, 0, 0, <<>>)

RECURSIVE CentersLoop(_, _, _, _, _)
CentersLoop(self, i, sx, sy, pos) ==
  IF i > self.dimension THEN pos
  ELSE LET dsx == (self.lengths[i] * Sin(self.thetas[i])) \div 2
           dsy == (self.lengths[i] * Cos(self.thetas[i])) \div 2
       IN CentersLoop(self, i + 1, sx + dsx + dsx, sy - dsy - dsy,
                      Append(pos, <<sx + dsx, sy - dsy>>))

getCentersOfMass(self) ==
  IF ~self.compound THEN getCartesianPositions(self)
  ELSE CentersLoop(self, 1, 0, 0, <<>>)

RECURSIVE VelocitiesLoop(_, _, _, _, _)
VelocitiesLoop(self, i, vx, vy, vel) ==
  IF i > self.dimension THEN vel
  ELSE LET fx == self.lengths[i] * Cos(self.thetas[i]) * self.omegas[i]
           fy == self.lengths[i] * Sin(self.thetas[i]) * self.omegas[i]
           dvx == IF self.compound THEN fx \div 2 ELSE fx
           dvy == IF self.compound THEN fy \div 2 ELSE fy
           nvx == vx + dvx
           nvy == vy + dvy
       IN VelocitiesLoop(self, i + 1,
                         IF self.compound THEN nvx + dvx ELSE nvx,
                         IF self.compound THEN nvy + dvy ELSE nvy,
                         Append(vel, <<nvx, nvy>>))

getCartesianVelocities(self) == VelocitiesLoop(self, 1, 0, 0, <<>>)

\* -------------------------------------------------------------------- energy
\* A label 'Kinetic ' + (i + 1) is the pair of its kind and its link.
Name(kind, link) == [kind |-> kind, link |-> link]
TotalName == Name("Total energy", 0)

\* A number of the breakdown, with what the code computed it as.
Component(kind, link, value) == [kind |-> kind, link |-> link, value |-> value]

NamesOfKind(kind, n) == [i \in 1..n |-> Name(kind, i)]

\* pendulum.js only: kinetic names of all links, then potential names of all
\* links, then (compound) angular names of all links, then the total.
getEnergyNames(self) ==
  NamesOfKind("Kinetic", self.dimension)
    \o NamesOfKind("Potential", self.dimension)
    \o (IF self.compound THEN NamesOfKind("Angular", self.dimension) ELSE <<>>)
    \o <<TotalName>>

KineticOf(self, i) ==
  LET vel == getCartesianVelocities(self)
  IN (self.masses[i] * (vel[i][1] * vel[i][1] + vel[i][2] * vel[i][2])) \div 2

PotentialOf(self, i) ==
  LET pos == getCentersOfMass(self)
  IN self.masses[i] * GRAVITY * pos[i][2]

AngularOf(self, i) ==
  (self.masses[i] * self.lengths[i] * self.lengths[i]
     * self.omegas[i] * self.omegas[i]) \div 24

\* pendulum.js getEnergy: per link t, u and (compound) at are pushed in that
\* order, accumulating total, which is pushed last.
RECURSIVE EnergyLoop(_, _, _, _)
EnergyLoop(self, i, total, energy) ==
  IF i > self.dimension
  THEN Append(energy, Component("Total energy", 0, total))
  ELSE LET t == KineticOf(self, i)
           u == PotentialOf(self, i)
           at == AngularOf(self, i)
           tu == <<Component("Kinetic", i, t), Component("Potential", i, u)>>
       IN IF self.compound
          THEN EnergyLoop(self, i + 1, total + t + u + at,
                          energy \o tu \o <<Component("Angular", i, at)>>)
          ELSE EnergyLoop(self, i + 1, total + t + u, energy \o tu)

\* What getEnergy returns: an array in pendulum.js, an object with the
\* properties kinetic and potential in part_000.  A property the returned
\* value does not have reads as undefined (hasKinetic = FALSE).
getEnergy(self) ==
  IF variant = "pendulum_js"
  THEN [array |-> EnergyLoop(self, 1, 0, <<>>), hasKinetic |-> FALSE,
        kinetic |-> <<>>, potential |-> <<>>]
  ELSE [array |-> <<>>, hasKinetic |-> TRUE,
        kinetic |-> [i \in 1..self.dimension |->
                       Component("Kinetic", i, KineticOf(self, i))],
        potential |-> [i \in 1..self.dimension |->
                         Component("Potential", i, PotentialOf(self, i))]]

RECURSIVE SumKineticPotential(_, _)
SumKineticPotential(energy, n) ==
  IF n = 0 THEN 0
  ELSE SumKineticPotential(energy, n - 1)
         + energy.kinetic[n].value + energy.potential[n].value

\* getTotalEnergy reads energy.kinetic[i] and energy.potential[i] for every
\* i < dimension; indexing undefined throws a TypeError.
getTotalEnergy(self) ==
  LET energy == getEnergy(self)
  IN IF self.dimension >= 1 /\ ~energy.hasKinetic
     THEN [thrown |-> TypeError, value |-> 0]
     ELSE [thrown |-> NoThrow,
           value |-> SumKineticPotential(energy, self.dimension)]

\* startSimulation: the labelled series and the sample update_energy_data
\* pushes onto each, as the sequence of (label, pushed component) pairs.
\* pendulum.js: series k is labelled getEnergyNames()[k] and receives
\* getEnergy()[k].  part_000: kinetic i goes to series i, potential i to
\* series i + dimension, the running total to series 2 * dimension.
update_energy_data(self) ==
  LET energy == getEnergy(self)
      n == self.dimension
  IN IF variant = "pendulum_js"
     THEN LET names == getEnergyNames(self)
          IN [k \in 1..Len(energy.array) |->
                [label |-> names[k], pushed |-> energy.array[k]]]
     ELSE LET names == NamesOfKind("Kinetic", n) \o NamesOfKind("Potential", n)
                         \o <<TotalName>>
              pushed == energy.kinetic \o energy.potential
                         \o <<Component("Total energy", 0,
                                        SumKineticPotential(energy, n))>>
          IN [k \in 1..(2 * n + 1) |-> [label |-> names[k], pushed |-> pushed[k]]]

\* ------------------------------------------------------------------ dynamics
\* The torques argument of a call: an array (read at index 0) or undefined.
NoTorque == [isArray |-> FALSE, at0 |-> 0]
Torque(x) == [isArray |-> TRUE, at0 |-> x]

\* numeric.solve(A, b) for the 2x2 system, by Cramer's rule.
Solve(A, b) ==
  LET det == A[1][1] * A[2][2] - A[1][2] * A[2][1]
  IN << (b[1] * A[2][2] - A[1][2] * b[2]) \div det,
        (A[1][1] * b[2] - A[2][1] * b[1]) \div det >>

\* The compound (uniform rod) coefficients of the double pendulum.
CompoundSystem(self, thetas, omegas) ==
  LET m1 == self.masses[1]    m2 == self.masses[2]
      t1 == thetas[1]         t2 == thetas[2]
      w1 == omegas[1]         w2 == omegas[2]
      ell1 == self.lengths[1] ell2 == self.lengths[2]
  IN [A |-> << << (m1 \div 3 + m2) * ell1, (m2 * ell2 * Cos(t1 - t2)) \div 2 >>,
               << (m2 * ell1 * Cos(t1 - t2)) \div 2, (m2 * ell2) \div 3 >> >>,
      b |-> << (-(m2 * ell2 * w2 * w2 * Sin(t1 - t2))) \div 2
                 - (m1 \div 2 + m2) * GRAVITY * Sin(t1),
               (m2 * ell1 * w1 * w1 * Sin(t1 - t2)) \div 2
                 - (m2 * GRAVITY * Sin(t2)) \div 2 >>]

\* The point-mass coefficients of the double pendulum.
PointMassSystem(self, thetas, omegas) ==
  LET m1 == self.masses[1]    m2 == self.masses[2]
      t1 == thetas[1]         t2 == thetas[2]
      w1 == omegas[1]         w2 == omegas[2]
      ell1 == self.lengths[1] ell2 == self.lengths[2]
  IN [A |-> << << (m1 + m2) * ell1, m2 * ell2 * Cos(t1 - t2) >>,
               << m2 * ell1 * Cos(t1 - t2), m2 * ell2 >> >>,
      b |-> << -(m2 * ell2 * w2 * w2 * Sin(t1 - t2))
                 - GRAVITY * (m1 + m2) * Sin(t1),
               m2 * ell1 * ell2 * w1 * w1 * Sin(t1 - t2)
                 - ell2 * m2 * GRAVITY * Sin(t2) >>]

\* The torque term: live in part_000 (lines 114-117), commented out in
\* pendulum.js (lines 197-208), where the argument is accepted and ignored.
WithTorque(self, sys, thetas, torques) ==
  IF variant = "part_000" /\ torques.isArray
  THEN LET d == thetas[1] - thetas[2]
       IN [A |-> sys.A,
           b |-> << sys.b[1] + (torques.at0 * d) \div self.lengths[1],
                    sys.b[2] - (torques.at0 * d) \div self.lengths[2] >>]
  ELSE sys

\* computeAlphas: the accelerations, or the throw for a dimension outside
\* {1, 2}.  It reads its arguments and this.lengths, this.masses,
\* this.compound, this.dimension, and writes nothing.
computeAlphas(self, thetas, omegas, torques) ==
  IF self.dimension = 1
  THEN [thrown |-> NoThrow,
        value |-> IF self.compound
                  THEN << ((-(3 * GRAVITY)) \div (2 * self.lengths[1])) * Sin(thetas[1]) >>
                  ELSE << ((-GRAVITY) \div self.lengths[1]) * Sin(thetas[1]) >>]
  ELSE IF self.dimension = 2
  THEN LET sys == IF self.compound
                  THEN CompoundSystem(self, thetas, omegas)
                  ELSE PointMassSystem(self, thetas, omegas)
           tsys == WithTorque(self, sys, thetas, torques)
       IN [thrown |-> NoThrow, value |-> Solve(tsys.A, tsys.b)]
  ELSE [thrown |-> NotImplemented, value |-> << >>]

\* ---------------------------------------------------------------- integrator
\* A faulty variant of the line below: the increment is applied twice.
AdvanceTimeTwice(time, dt) == time + dt + dt

\* Line 218: this.time += dt, the first statement of takeStep.
AdvanceTime(time, dt) == time + dt

\* What takeStep hands to computeAlphas as its third argument: pendulum.js
\* passes its own torques parameter; part_000 calls
\* computeAlphas(thetas, omegas) with two arguments, so the third is undefined.
ForwardedTorques(torques) ==
  IF variant = "pendulum_js" THEN torques ELSE NoTorque

\* One evaluation of the solver, as the step's log keeps it.
Call(thetas, omegas, torques, r) ==
  [thetas |-> thetas, omegas |-> omegas, torques |-> torques,
   alphas |-> r.value, thrown |-> r.thrown]

\* A faulty variant of the update below: theta += omega, without the dt.
ForwardEulerUpdateUnscaled(thetas, omegas, alphas, dt) ==
  [thetas |-> [i \in DOMAIN thetas |->
                 IF i <= Len(alphas) THEN thetas[i] + omegas[i] ELSE thetas[i]],
   omegas |-> [i \in DOMAIN omegas |->
                 IF i <= Len(alphas) THEN omegas[i] + alphas[i] * dt ELSE omegas[i]]]

\* Lines 222-225: per link, theta += omega * dt, then omega += alpha * dt.
ForwardEulerUpdate(thetas, omegas, alphas, dt) ==
  [thetas |-> [i \in DOMAIN thetas |->
                 IF i <= Len(alphas) THEN thetas[i] + omegas[i] * dt ELSE thetas[i]],
   omegas |-> [i \in DOMAIN omegas |->
                 IF i <= Len(alphas) THEN omegas[i] + alphas[i] * dt ELSE omegas[i]]]

\* A faulty variant of the update below: theta advances by the old omega.
SemiImplicitEulerUpdateOldOmega(thetas, omegas, alphas, dt) ==
  [thetas |-> [i \in DOMAIN thetas |->
                 IF i <= Len(alphas) THEN thetas[i] + omegas[i] * dt ELSE thetas[i]],
   omegas |-> [i \in DOMAIN omegas |->
                 IF i <= Len(alphas) THEN omegas[i] + alphas[i] * dt ELSE omegas[i]]]

\* Lines 229-232: per link, omega += alpha * dt, then theta += (new) omega * dt.
SemiImplicitEulerUpdate(thetas, omegas, alphas, dt) ==
  LET new_omegas == [i \in DOMAIN omegas |->
                       IF i <= Len(alphas) THEN omegas[i] + alphas[i] * dt ELSE omegas[i]]
  IN [thetas |-> [i \in DOMAIN thetas |->
                    IF i <= Len(alphas) THEN thetas[i] + new_omegas[i] * dt ELSE thetas[i]],
      omegas |-> new_omegas]

\* Lines 259-264: per link, theta += (dt / 6) * theta_step and
\* omega += (dt / 6) * omega_step.
RungeKuttaUpdate(thetas, omegas, ok, ak, dt, dimension) ==
  [thetas |-> [i \in DOMAIN thetas |->
                 IF i <= dimension
                 THEN thetas[i] + (dt * (ok[1][i] + 2 * ok[2][i] + 2 * ok[3][i] + ok[4][i])) \div 6
                 ELSE thetas[i]],
   omegas |-> [i \in DOMAIN omegas |->
                 IF i <= dimension
                 THEN omegas[i] + (dt * (ak[1][i] + 2 * ak[2][i] + 2 * ak[3][i] + ak[4][i])) \div 6
                 ELSE omegas[i]]]

\* The outcome of a takeStep call that threw inside computeAlphas: the
\* arrays as they were, and the time the call had already written.
Thrown(self, time, calls) ==
  [inRange |-> TRUE, thrown |-> NotImplemented, thetas |-> self.thetas,
   omegas |-> self.omegas, time |-> time, calls |-> calls]

Returned(upd, time, calls) ==
  [inRange |-> InRange(upd.omegas), thrown |-> NoThrow, thetas |-> upd.thetas,
   omegas |-> upd.omegas, time |-> time, calls |-> calls]

\* A step whose numbers leave the modelled range is not explored.
OutOfRange(self) ==
  [inRange |-> FALSE, thrown |-> NoThrow, thetas |-> self.thetas,
   omegas |-> self.omegas, time |-> self.time, calls |-> << >>]

\* Lines 219-225: the Forward Euler branch.
ForwardEulerStep(self, dt, fwd, time) ==
  LET r == computeAlphas(self, self.thetas, self.omegas, fwd)
      calls == << Call(self.thetas, self.omegas, fwd, r) >>
  IN IF r.thrown # NoThrow THEN Thrown(self, time, calls)
     ELSE IF ~(InRange(self.omegas) /\ InRange(r.value)) THEN OutOfRange(self)
     ELSE Returned(ForwardEulerUpdate(self.thetas, self.omegas, r.value, dt),
                   time, calls)

\* Lines 226-232: the Semi-implicit Euler branch.
SemiImplicitEulerStep(self, dt, fwd, time) ==
  LET r == computeAlphas(self, self.thetas, self.omegas, fwd)
      calls == << Call(self.thetas, self.omegas, fwd, r) >>
  IN IF r.thrown # NoThrow THEN Thrown(self, time, calls)
     ELSE IF ~(InRange(self.omegas) /\ InRange(r.value)) THEN OutOfRange(self)
     ELSE Returned(SemiImplicitEulerUpdate(self.thetas, self.omegas, r.value, dt),
                   time, calls)

\* Lines 234-235: omegas_k1 is a copy of this.omegas, alphas_k1 the solver's
\* answer at the committed (this.thetas, this.omegas).
RungeKuttaFirst(self, fwd) ==
  LET r == computeAlphas(self, self.thetas, self.omegas, fwd)
  IN [ok |-> InRange(self.omegas) /\ InRange(r.value),
      thetas |-> self.thetas, omegas |-> self.omegas,
      alphas |-> r.value, thrown |-> r.thrown]

\* A faulty variant of the stage below: the perturbation is added to the
\* state the previous stage was evaluated at, as if that stage had been
\* written into this.thetas and this.omegas.
RungeKuttaNextInPlace(self, fwd, prev, num, den) ==
  IF ~prev.ok THEN prev
  ELSE LET thetas == [i \in 1..Len(prev.alphas) |->
                        prev.thetas[i] + (num * prev.omegas[i]) \div den]
           omegas == [i \in 1..Len(prev.alphas) |->
                        prev.omegas[i] + (num * prev.alphas[i]) \div den]
       IN IF ~InRange(omegas) THEN [prev EXCEPT !.ok = FALSE]
          ELSE LET r == computeAlphas(self, thetas, omegas, fwd)
               IN [ok |-> InRange(r.value), thetas |-> thetas, omegas |-> omegas,
                   alphas |-> r.value, thrown |-> r.thrown]

\* Lines 237-243, 245-250 and 252-257: the next stage, from the stage `prev`
\* before it.  Per link of prev.alphas the local thetas is this.thetas plus
\* h * prev.omegas and omegas_k is this.omegas plus h * prev.alphas, where h is
\* dt / 2 (stages 2 and 3: num = dt, den = 2) or dt (stage 4: den = 1); the
\* solver is then evaluated there.
RungeKuttaNext(self, fwd, prev, num, den) ==
  IF ~prev.ok THEN prev
  ELSE LET thetas == [i \in 1..Len(prev.alphas) |->
                        self.thetas[i] + (num * prev.omegas[i]) \div den]
           omegas == [i \in 1..Len(prev.alphas) |->
                        self.omegas[i] + (num * prev.alphas[i]) \div den]
       IN IF ~InRange(omegas) THEN [prev EXCEPT !.ok = FALSE]
          ELSE LET r == computeAlphas(self, thetas, omegas, fwd)
               IN [ok |-> InRange(r.value), thetas |-> thetas, omegas |-> omegas,
                   alphas |-> r.value, thrown |-> r.thrown]

StageCall(stage, fwd) ==
  [thetas |-> stage.thetas, omegas |-> stage.omegas, torques |-> fwd,
   alphas |-> stage.alphas, thrown |-> stage.thrown]

\* The stages 1..n of lines 234-257 in the order the code runs them: stage 1
\* at the committed state, stages 2 and 3 a half step (dt / 2) from it, stage
\* 4 a full step (dt).
RECURSIVE RungeKuttaStages(_, _, _, _)
RungeKuttaStages(self, fwd, dt, n) ==
  IF n = 1 THEN << RungeKuttaFirst(self, fwd) >>
  ELSE LET done == RungeKuttaStages(self, fwd, dt, n - 1)
       IN Append(done, RungeKuttaNext(self, fwd, done[n - 1], dt,
                                      IF n = 4 THEN 1 ELSE 2))

\* Lines 233-265: the Runge-Kutta branch.  A throw can only come from the
\* first evaluation: the dimension does not change within the step.
RungeKuttaStep(self, dt, fwd, time) ==
  LET k == RungeKuttaStages(self, fwd, dt, 4)
  IN IF k[1].thrown # NoThrow
     THEN Thrown(self, time, << StageCall(k[1], fwd) >>)
     ELSE IF ~k[4].ok THEN OutOfRange(self)
     ELSE Returned(
            RungeKuttaUpdate(self.thetas, self.omegas,
                             [n \in 1..4 |-> k[n].omegas],
                             [n \in 1..4 |-> k[n].alphas],
                             dt, self.dimension),
            time, [n \in 1..4 |-> StageCall(k[n], fwd)])

\* Pendulum.prototype.takeStep(dt, torques): the time is advanced first, then
\* the branch of this.integration_method runs; a method that is none of the
\* three objects (null, for one) matches no branch and only the time moves.
takeStep(self, dt, torques) ==
  LET time == AdvanceTime(self.time, dt)
      fwd == ForwardedTorques(torques)
  IN IF self.integration_method = FORWARD_EULER
     THEN ForwardEulerStep(self, dt, fwd, time)
     ELSE IF self.integration_method = SEMI_IMPLICIT_EULER
     THEN SemiImplicitEulerStep(self, dt, fwd, time)
     ELSE IF self.integration_method = RUNGE_KUTTA
     THEN RungeKuttaStep(self, dt, fwd, time)
     ELSE [inRange |-> TRUE, thrown |-> NoThrow, thetas |-> self.thetas,
           omegas |-> self.omegas, time |-> time, calls |-> << >>]

\* ------------------------------------------------------------------- actions
\* The construction inputs a caller may hold.
Lengths(n) == [i \in 1..n |-> 1 + ((i + 1) % 2)]
Masses(n) == [i \in 1..n |-> 6 * (1 + (i % 2))]
\* (theta, omega) every link starts with: at rest at a quarter turn (the
\* page's initial state), or passing the bottom with velocity 1.
InitialStates == {<<1, 0>>, <<0, 1>>}
MethodInputs == INTEGRATION_METHODS \cup {Undefined, Null}
TorqueInputs == {NoTorque, Torque(1)}
\* The time increments a caller passes: none, or one unit.
DtInputs == {0, 1}
\* part_000 knows no 'compound' option, and its callers pass none.
CompoundInputs == IF variant = "pendulum_js" THEN BOOLEAN ELSE {FALSE}

NoCall ==
  [op |-> "none", p |-> 1, opt |-> 1, dt |-> 0, torques |-> NoTorque,
   thrown |-> NoThrow, pre |-> [p \in Pids |-> [constructed |-> FALSE,
   thetas |-> << >>, omegas |-> << >>, time |-> 0]],
   calls |-> << >>, series |-> << >>, total |-> 0]

\* The page is loaded; the caller holds two options objects with equal
\* contents and separate arrays; no Pendulum exists yet.
Init ==
  /\ variant \in Variants
  /\ \E nl \in 0..MaxDim, nm \in 0..MaxDim, nt \in 0..MaxDim, no \in 0..MaxDim,
        s \in InitialStates, m \in MethodInputs, c \in CompoundInputs :
       options = [o \in OptIds |->
                    [lengths |-> Lengths(nl), masses |-> Masses(nm),
                     thetas |-> [i \in 1..nt |-> s[1]],
                     omegas |-> [i \in 1..no |-> s[2]],
                     integration_method |-> m, compound |-> c]]
  /\ pendulums = [p \in Pids |-> NoPendulum]
  /\ last = NoCall
  /\ trace = [p \in Pids |-> << >>]

\* new Pendulum(options[o]), assigned to slot p when it returns.  The host
\* fills its slots in order and builds its first instance from options[1].
New(p, o) ==
  /\ ~pendulums[p].constructed
  /\ pendulums[1].constructed \/ (p = 1 /\ o = 1)
  /\ IF LengthsDiffer(options[o])
     THEN /\ pendulums' = pendulums
          /\ last' = [NoCall EXCEPT !.op = "new", !.p = p, !.opt = o,
                        !.thrown = ValidationMessage, !.pre = Snapshot]
     ELSE /\ pendulums' = [pendulums EXCEPT ![p] =
                 [constructed |-> TRUE, opt |-> o,
                  integration_method |-> MethodOf(options[o]),
                  compound |-> CompoundOf(options[o]),
                  dimension |-> Len(options[o].lengths), time |-> 0]]
          /\ last' = [NoCall EXCEPT !.op = "new", !.p = p, !.opt = o,
                        !.pre = Snapshot]
  /\ UNCHANGED <<variant, options, trace>>

StepsTaken == Len(trace[1]) + Len(trace[2])

\* The interval callback of startSimulation, for any dt and torques:
\* pendulums[p].takeStep(dt, torques), then, when that returned,
\* update_energy_data().  The writes to this.thetas and this.omegas land in
\* the arrays the pendulum references.
TakeStep(p, dt, torques) ==
  /\ pendulums[p].constructed
  /\ StepsTaken < MaxSteps
  /\ LET r == takeStep(Self(p), dt, torques)
         o == pendulums[p].opt
         after == [Self(p) EXCEPT !.thetas = r.thetas, !.omegas = r.omegas,
                                  !.time = r.time]
     IN /\ r.inRange
        /\ options' = [options EXCEPT ![o].thetas = r.thetas, ![o].omegas = r.omegas]
        /\ pendulums' = [pendulums EXCEPT ![p].time = r.time]
        /\ last' = [NoCall EXCEPT !.op = "takeStep", !.p = p, !.opt = o, !.dt = dt,
                      !.torques = torques, !.thrown = r.thrown,
                      !.pre = Snapshot, !.calls = r.calls,
                      !.series = IF r.thrown = NoThrow
                                 THEN update_energy_data(after) ELSE << >>]
        /\ trace' = [trace EXCEPT ![p] = Append(@,
                       [dt |-> dt,
                        after |-> [constructed |-> TRUE, thetas |-> r.thetas,
                                   omegas |-> r.omegas, time |-> r.time]])]
  /\ UNCHANGED variant

\* pendulums[p].getTotalEnergy().
GetTotalEnergy(p) ==
  /\ pendulums[p].constructed
  /\ LET r == getTotalEnergy(Self(p))
     IN last' = [NoCall EXCEPT !.op = "getTotalEnergy", !.p = p,
                   !.opt = pendulums[p].opt, !.pre = Snapshot,
                   !.thrown = r.thrown, !.total = r.value]
  /\ UNCHANGED <<variant, options, pendulums, trace>>

Next ==
  \/ \E p \in Pids, o \in OptIds : New(p, o)
  \/ \E p \in Pids, dt \in DtInputs, torques \in TorqueInputs : TakeStep(p, dt, torques)
  \/ \E p \in Pids : GetTotalEnergy(p)

Spec == Init /\ [][Next]_vars

\* -------------------------------------------------------------------- claims
Dimension(p) == pendulums[p].dimension
Method(p) == pendulums[p].integration_method
IsStep == last.op = "takeStep"

\* C1: a step call that fails leaves thetas, omegas and time of its
\* configuration exactly as they were before the call.
C1_FailedStepLeavesStateUnchanged ==
  (IsStep /\ last.thrown # NoThrow) => View(last.p) = last.pre[last.p]

\* C2: on a configuration whose dimension is outside {1, 2}, every step call
\* fails with the unsupported-dimension error, whatever its method.
C2_UnsupportedDimensionAlwaysFails ==
  (IsStep /\ Dimension(last.p) \notin {1, 2}) => last.thrown = NotImplemented

\* C3: a step on one instance leaves every other instance's thetas, omegas and
\* time unchanged, and two instances that have been given the same sequence
\* of steps were in the same state after each of them.
SameStepsUpTo(p, q, k) ==
  /\ k <= Len(trace[p])
  /\ k <= Len(trace[q])
  /\ \A j \in 1..k : trace[p][j].dt = trace[q][j].dt

C3_InstancesShareNoState ==
  /\ IsStep => \A q \in Pids \ {last.p} : View(q) = last.pre[q]
  /\ \A p \in Pids, q \in Pids, k \in 1..StepsTaken :
       SameStepsUpTo(p, q, k) => trace[p][k].after = trace[q][k].after

\* C4: in the energy breakdown of a configuration of dimension 1 or 2, the
\* name at index k describes the value at index k, the names and the values
\* are equally many, and the grand total comes last.
C4_NamesDescribeValues ==
  (IsStep /\ last.thrown = NoThrow /\ Dimension(last.p) \in {1, 2}) =>
    /\ \A k \in DOMAIN last.series :
         /\ last.series[k].label.kind = last.series[k].pushed.kind
         /\ last.series[k].label.link = last.series[k].pushed.link
    /\ last.series # << >>
    /\ last.series[Len(last.series)].label = TotalName
    /\ variant = "pendulum_js" =>
         Len(getEnergyNames(Self(last.p))) = Len(getEnergy(Self(last.p)).array)

\* C5: on a configuration of dimension 1 or 2 the total-energy query returns
\* normally, and its result is the sum of the per-link components of the
\* breakdown, which is the grand total the breakdown reports.
RECURSIVE SumOfComponents(_, _)
SumOfComponents(series, k) ==
  IF k = 0 THEN 0
  ELSE SumOfComponents(series, k - 1)
         + (IF series[k].pushed.kind = "Total energy" THEN 0
            ELSE series[k].pushed.value)

C5_TotalEnergyIsSumOfComponents ==
  (last.op = "getTotalEnergy" /\ Dimension(last.p) \in {1, 2}) =>
    LET series == update_energy_data(Self(last.p))
    IN /\ last.thrown = NoThrow
       /\ last.total = SumOfComponents(series, Len(series))
       /\ last.total = series[Len(series)].pushed.value

\* C6: the torque argument of a step call reaches every solver evaluation of
\* that step unchanged: the one evaluation of either Euler method and all
\* four of Runge-Kutta.
C6_TorqueForwardedToEverySolverCall ==
  IsStep =>
    /\ \A k \in DOMAIN last.calls : last.calls[k].torques = last.torques
    /\ Method(last.p) \in {FORWARD_EULER, SEMI_IMPLICIT_EULER} => Len(last.calls) = 1
    /\ (Method(last.p) = RUNGE_KUTTA /\ last.thrown = NoThrow) => Len(last.calls) = 4

\* C7: time starts at 0, never decreases, changes only in step calls, and each
\* step call adds its dt to it exactly once.
RECURSIVE SumDt(_)
SumDt(steps) == IF steps = << >> THEN 0 ELSE steps[1].dt + SumDt(Tail(steps))

C7_TimeAdvancesOncePerStep ==
  /\ \A p \in Pids :
       pendulums[p].constructed =>
         /\ trace[p] = << >> => pendulums[p].time = 0
         /\ pendulums[p].time = SumDt(trace[p])
  /\ IsStep =>
       /\ pendulums[last.p].time = last.pre[last.p].time + last.dt
       /\ pendulums[last.p].time >= last.pre[last.p].time
  /\ \A q \in Pids :
       (last.pre[q].constructed /\ ~(IsStep /\ q = last.p)) =>
         pendulums[q].time = last.pre[q].time
  /\ (last.op = "new" /\ pendulums[last.p].constructed) => pendulums[last.p].time = 0

\* A Runge-Kutta step (four solver evaluations) with dt = 1 has brought the
\* time of its configuration from 1 to 2.
C7_Witness ==
  /\ IsStep /\ last.dt = 1 /\ last.thrown = NoThrow
  /\ Method(last.p) = RUNGE_KUTTA /\ Len(last.calls) = 4
  /\ last.pre[last.p].time = 1 /\ pendulums[last.p].time = 2

\* C8: the integration method of a constructed configuration is one of the
\* three, and SemiImplicitEuler when the input gave none; so every step on a
\* configuration of dimension 1 or 2 runs one of the three schemes.
C8_MethodIsOneOfThree ==
  /\ \A p \in Pids :
       pendulums[p].constructed =>
         /\ Method(p) \in INTEGRATION_METHODS
         /\ options[pendulums[p].opt].integration_method = Undefined =>
              Method(p) = SEMI_IMPLICIT_EULER
  /\ (IsStep /\ Dimension(last.p) \in {1, 2}) => Len(last.calls) >= 1

\* C9: construction fails with the validation error whenever lengths, masses,
\* thetas and omegas do not all have one common length, so no configuration
\* with such arrays exists and no step is ever taken on one.
CommonLength(o) ==
  Cardinality({Len(o.lengths), Len(o.masses), Len(o.thetas), Len(o.omegas)}) = 1

C9_MismatchedLengthsFailAtConstruction ==
  /\ (last.op = "new" /\ ~CommonLength(options[last.opt])) =>
       /\ last.thrown = ValidationMessage
       /\ ~pendulums[last.p].constructed
  /\ \A p \in Pids :
       pendulums[p].constructed =>
         /\ CommonLength(options[pendulums[p].opt])
         /\ Len(options[pendulums[p].opt].lengths) = Dimension(p)
  /\ \A p \in Pids : trace[p] # << >> => pendulums[p].constructed

\* new Pendulum was called with 2 lengths and 1 mass, and threw.
C9_Witness ==
  /\ last.op = "new" /\ last.thrown = ValidationMessage
  /\ Len(options[last.opt].lengths) = 2
  /\ Len(options[last.opt].masses) = 1

\* C10: on a configuration of dimension 1 or 2, whatever its method, a step
\* call with dt = 0 returns and leaves thetas, omegas and time unchanged.
C10_ZeroStepIsIdentity ==
  (IsStep /\ last.dt = 0 /\ Dimension(last.p) \in {1, 2}) =>
    /\ last.thrown = NoThrow
    /\ View(last.p) = last.pre[last.p]

\* A Runge-Kutta step with dt = 0 was taken on a moving double pendulum whose
\* solver returned a nonzero acceleration.
C10_Witness ==
  /\ IsStep /\ last.dt = 0 /\ Dimension(last.p) = 2
  /\ Method(last.p) = RUNGE_KUTTA /\ Len(last.calls) = 4
  /\ last.pre[last.p].omegas[1] # 0
  /\ last.calls[1].alphas[1] # 0

\* C11: an Euler step evaluates the accelerations exactly once, at the
\* pre-step (thetas, omegas), and then per link: Forward Euler sets theta to
\* old theta + old omega * dt and omega to old omega + alpha * dt;
\* Semi-implicit Euler sets omega to old omega + alpha * dt and theta to old
\* theta + new omega * dt.  Every link, the second of two included, uses the
\* acceleration the solver gives at the pre-step state.
IsEulerStep == IsStep /\ Method(last.p) \in {FORWARD_EULER, SEMI_IMPLICIT_EULER}

\* The accelerations at the state before the last call.
PreStepAlphas ==
  computeAlphas(Self(last.p), last.pre[last.p].thetas, last.pre[last.p].omegas,
                ForwardedTorques(last.torques)).value

C11_EulerUpdateOrder ==
  IsEulerStep =>
    LET pre == last.pre[last.p]
        now == View(last.p)
    IN /\ Len(last.calls) = 1
       /\ last.calls[1].thetas = pre.thetas
       /\ last.calls[1].omegas = pre.omegas
       /\ last.thrown = NoThrow =>
            /\ last.calls[1].alphas = PreStepAlphas
            /\ \A i \in 1..Dimension(last.p) :
                 /\ now.omegas[i] = pre.omegas[i] + PreStepAlphas[i] * last.dt
                 /\ Method(last.p) = FORWARD_EULER =>
                      now.thetas[i] = pre.thetas[i] + pre.omegas[i] * last.dt
                 /\ Method(last.p) = SEMI_IMPLICIT_EULER =>
                      now.thetas[i] = pre.thetas[i] + now.omegas[i] * last.dt

\* A Semi-implicit Euler step with dt = 1 was taken on a double pendulum whose
\* first link accelerates, and the solver's answer for the second link would
\* have been another one had it been asked after the first link was written.
C11_Witness ==
  /\ IsEulerStep /\ Method(last.p) = SEMI_IMPLICIT_EULER
  /\ last.dt = 1 /\ last.thrown = NoThrow /\ Dimension(last.p) = 2
  /\ last.calls[1].alphas[1] # 0
  /\ LET pre == last.pre[last.p]
         now == View(last.p)
     IN computeAlphas(Self(last.p),
                      <<now.thetas[1], pre.thetas[2]>>,
                      <<now.omegas[1], pre.omegas[2]>>,
                      ForwardedTorques(last.torques)).value[2]
          # last.calls[1].alphas[2]

\* C12: a Runge-Kutta step is the classical four-stage scheme on the pre-step
\* state: stage 1 is evaluated at the pre-step thetas and omegas, stages 2, 3
\* and 4 at the pre-step thetas and omegas plus dt/2, dt/2 and dt times the
\* omegas and alphas of the stage before; every evaluation is the solver's
\* answer at the state it was given, with the committed state still the
\* pre-step one; and each link then advances by (dt/6)*(k1 + 2*k2 + 2*k3 + k4).
IsRungeKuttaStep ==
  IsStep /\ Method(last.p) = RUNGE_KUTTA /\ last.thrown = NoThrow

\* The step size of stage n as a fraction num / den of dt.
StageDen(n) == IF n = 4 THEN 1 ELSE 2

\* The classical reference: where stage n is evaluated, given the pre-step
\* state and the stage before it.
ReferenceStage(pre, prev, dt, n) ==
  [thetas |-> [i \in DOMAIN pre.thetas |->
                 pre.thetas[i] + (dt * prev.omegas[i]) \div StageDen(n)],
   omegas |-> [i \in DOMAIN pre.omegas |->
                 pre.omegas[i] + (dt * prev.alphas[i]) \div StageDen(n)]]

\* The classical reference: the weighted sum of the four slopes of link i.
WeightedSum(k, i) == k[1][i] + 2 * k[2][i] + 2 * k[3][i] + k[4][i]

C12_RungeKuttaIsClassicalReference ==
  IsRungeKuttaStep =>
    LET pre == last.pre[last.p]
        now == View(last.p)
        k == last.calls
    IN /\ Len(k) = 4
       /\ k[1].thetas = pre.thetas
       /\ k[1].omegas = pre.omegas
       /\ \A n \in 2..4 :
            /\ k[n].thetas = ReferenceStage(pre, k[n - 1], last.dt, n).thetas
            /\ k[n].omegas = ReferenceStage(pre, k[n - 1], last.dt, n).omegas
       /\ \A n \in 1..4 :
            k[n].alphas = computeAlphas(Self(last.p), k[n].thetas, k[n].omegas,
                                        ForwardedTorques(last.torques)).value
       /\ \A i \in 1..Dimension(last.p) :
            /\ now.thetas[i] = pre.thetas[i]
                 + (last.dt * WeightedSum([n \in 1..4 |-> k[n].omegas], i)) \div 6
            /\ now.omegas[i] = pre.omegas[i]
                 + (last.dt * WeightedSum([n \in 1..4 |-> k[n].alphas], i)) \div 6

\* A Runge-Kutta step with dt = 1 was taken on a double pendulum: its second
\* and third stages were evaluated at states other than the pre-step one and
\* other than each other, and the step moved both thetas and omegas.
C12_Witness ==
  /\ IsRungeKuttaStep /\ last.dt = 1 /\ Dimension(last.p) = 2
  /\ Len(last.calls) = 4
  /\ last.calls[2].thetas # last.pre[last.p].thetas
  /\ last.calls[2].omegas # last.pre[last.p].omegas
  /\ last.calls[3].thetas # last.calls[2].thetas
  /\ View(last.p).thetas # last.pre[last.p].thetas
  /\ View(last.p).omegas # last.pre[last.p].omegas

====
